---- MODULE Spec2Model ----
(***************************************************************************)
(* Incremental ingestion pipeline of stealth_app/backend/main.py:          *)
(* reddit_ml_data (load, scan, fan out one record per detected bank,       *)
(* dedup by content hash, persist) and clear_data, over the two persisted  *)
(* files scraped_data.json and seen_posts.json.                            *)
(***************************************************************************)
EXTENDS Integers, Sequences, FiniteSets, TLC

\* ---------------------------------------------------------------- bounds
NRuns == 2          \* request slots that may be in flight
MaxOps == 3         \* requests (pipeline runs and clears) started in a behaviour
MaxPosts == 2       \* submissions of one run that reach the loop over their banks
MaxSubs == 2        \* entries of the subs parameter (subreddit_list) of a run
MaxConcOps == 2     \* requests started in a behaviour with overlapping requests
MaxSubsOne == 3     \* entries of the subs parameter of a single request on its own

Runs == 1..NRuns

\* ---------------------------------------------------------------- inputs
PostIds == {"p1", "p2"}
Heads == {"h1", "h2"}            \* values of text[:100]
BankOrder == <<"ally", "chase">> \* lexicographic order of the canonical names
BankNames == {BankOrder[i] : i \in 1..Len(BankOrder)}

DefaultMinScore == 5
DefaultMinComments == 5

\* values of the min_score and min_comments parameters: at, below and above the default
MinScores == {DefaultMinScore - 1, DefaultMinScore, DefaultMinScore + 1}
MinComments == {DefaultMinComments - 1, DefaultMinComments, DefaultMinComments + 1}

\* A submission as the pipeline observes it: id, the first 100 characters of
\* its text, the banks its text mentions, score and num_comments.
Submissions ==
    { [id |-> "p1", head |-> "h1", banks |-> {"ally", "chase"}, score |-> 5, num_comments |-> 5],
      [id |-> "p1", head |-> "h2", banks |-> {"ally", "chase"}, score |-> 5, num_comments |-> 5],
      [id |-> "p2", head |-> "h1", banks |-> {"chase"}, score |-> 5, num_comments |-> 5],
      [id |-> "p2", head |-> "h1", banks |-> {"chase"}, score |-> 4, num_comments |-> 5],
      [id |-> "p2", head |-> "h1", banks |-> {"chase"}, score |-> 5, num_comments |-> 4],
      [id |-> "p2", head |-> "h2", banks |-> {}, score |-> 5, num_comments |-> 5] }

\* ---------------------------------------------------------------- helpers
\* variant: the number of comments is not tested
keep_by_quality_score_only(score, num_comments, min_score, min_comments) ==
    score >= min_score

keep_by_quality(score, num_comments, min_score, min_comments) ==
    score >= min_score /\ num_comments >= min_comments

\* sorted(normalized): the detected banks of a submission in lexicographic order
DetectedBanks(s) == SelectSeq(BankOrder, LAMBDA b : b \in s.banks)

\* md5 of "{post_id}_{bank_name}_{text[:100]}": one digest per distinct content
generate_post_hash(post_id, bank_name, head) == <<post_id, bank_name, head>>

\* variant: the membership test is lost
is_duplicate_never(post_hash, seen) == FALSE

is_duplicate(post_hash, seen) == post_hash \in seen

NoRecords == <<>>
Missing == [st |-> "missing"]
Corrupt == [st |-> "corrupt"]          \* cut short: json.load raises JSONDecodeError
Undecodable == [st |-> "undecodable"]  \* cut inside a multi-byte character of a
                                       \* post_text: reading raises UnicodeDecodeError
DataOk(recs) == [st |-> "ok", recs |-> recs]
HashOk(hs) == [st |-> "ok", hashes |-> hs]

load_existing_data(f) == IF f.st = "ok" THEN f.recs ELSE NoRecords
load_seen_hashes(f) == IF f.st = "ok" THEN f.hashes ELSE {}

\* except (json.JSONDecodeError, FileNotFoundError): any other exception of
\* open/json.load leaves load_existing_data
load_existing_data_raises(f) == f.st = "undecodable"

\* existing_data = load_existing_data() if append else []
ExistingData(append, f) == IF append THEN load_existing_data(f) ELSE NoRecords

\* variant: indexing restarts at 0 in every run
StartIndexZero(existing_data) == 0

\* index = len(existing_data)
StartIndex(existing_data) == Len(existing_data)

\* variant: only the new records are written
AllDataNewOnly(existing_data, new_data) == new_data

\* all_data = existing_data + new_data
AllData(existing_data, new_data) == existing_data \o new_data

\* variant: only the hashes of this run are written
SavedHashesNewOnly(seen_hashes, new_hashes) == new_hashes

\* the argument of save_seen_hashes
SavedHashes(seen_hashes, new_hashes) == seen_hashes

\* variant: the new hashes are counted instead of subtracted
DuplicatesSkippedNew(seen_hashes, new_hashes) == Cardinality(new_hashes)

\* "duplicates_skipped": len(seen_hashes) - len(new_hashes)
DuplicatesSkipped(seen_hashes, new_hashes) == Cardinality(seen_hashes) - Cardinality(new_hashes)

\* The body of "for bank in banks" applied to the banks from position i on:
\* acc = [new_data, new_hashes, seen_hashes, index]
RECURSIVE FanOut(_, _, _, _)
FanOut(s, banks, i, acc) ==
    IF i > Len(banks) THEN acc
    ELSE LET post_hash == generate_post_hash(s.id, banks[i], s.head)
         IN IF is_duplicate(post_hash, acc.seen_hashes)
            THEN FanOut(s, banks, i + 1, acc)
            ELSE FanOut(s, banks, i + 1,
                   [new_data |-> Append(acc.new_data,
                                   [index |-> acc.index, bank_name |-> banks[i],
                                    likes |-> s.score, replies |-> s.num_comments,
                                    post_id |-> s.id, hash |-> post_hash]),
                    new_hashes |-> acc.new_hashes \cup {post_hash},
                    seen_hashes |-> acc.seen_hashes \cup {post_hash},
                    index |-> acc.index + 1])

\* variant: only the first detected bank gets a record
ProcessSubmissionFirstBank(s, min_score, min_comments, acc) ==
    IF ~keep_by_quality(s.score, s.num_comments, min_score, min_comments) THEN acc
    ELSE IF DetectedBanks(s) = <<>> THEN acc
    ELSE FanOut(s, SubSeq(DetectedBanks(s), 1, 1), 1, acc)

\* One iteration of "async for submission in post_iter"
ProcessSubmission(s, min_score, min_comments, acc) ==
    IF ~keep_by_quality(s.score, s.num_comments, min_score, min_comments) THEN acc
    ELSE IF DetectedBanks(s) = <<>> THEN acc
    ELSE FanOut(s, DetectedBanks(s), 1, acc)

\* ---------------------------------------------------------------- bank detection
\* A lower-cased text is a sequence of units separated by single blanks. A unit
\* is a sequence of runs of letters joined by one of the characters & . - ' of
\* the token class of WORD_RE (<<"bank", "s">> is bank's, <<"non", "ally">> is
\* non-ally), or a number. A name is the sequence of its words: <<"ally",
\* "bank">> is "ally bank".
MaxTokens == 5       \* units of a text that exercises the ambiguity guard
MaxAliasTokens == 3  \* units of a text over the whole vocabulary

Number == <<"0">>
GuardUnits == { <<"ally">>, <<"bank">>, <<"the">>, <<"chase">>, <<"bank", "s">>, Number }
AliasUnits == GuardUnits \cup { <<"non", "ally">>, <<"citibank">>, <<"jp">>, <<"morgan">>,
                                <<"pnc">>, <<"us">>, <<"zelle">>, <<"venmo">>, <<"card">>,
                                <<"finally">> }
TextsOver(U, n) == UNION {[1..k -> U] : k \in 0..n}
Texts == TextsOver(GuardUnits, MaxTokens) \cup TextsOver(AliasUnits, MaxAliasTokens)

BANK_PHRASES ==
    { <<"ally", "bank">>, <<"bank", "of", "america">>, <<"wells", "fargo">>,
      <<"capital", "one">>, <<"td", "bank">>, <<"us", "bank">>,
      <<"fifth", "third">>, <<"bank", "of", "the", "west">>,
      <<"citizens", "bank">>, <<"pnc", "bank">>, <<"hsbc", "bank">>,
      <<"santander", "bank">>, <<"barclays", "bank">>,
      <<"standard", "chartered">>, <<"american", "express">>,
      <<"bank", "of", "scotland">>, <<"royal", "bank", "of", "canada">>,
      <<"bank", "of", "montreal">>, <<"state", "bank", "of", "india">>,
      <<"icici", "bank">>, <<"axis", "bank">>, <<"union", "bank">>,
      <<"first", "republic">>, <<"first", "citizens">>,
      <<"credit", "suisse">>, <<"deutsche", "bank">>,
      <<"jpmorgan", "chase">>, <<"jp", "morgan">>, <<"morgan", "stanley">> }

SINGLE_WORD_BANKS ==
    { "chase", "citi", "citibank", "pnc", "hsbc", "barclays", "santander",
      "monzo", "revolut", "nubank", "sofi", "chime", "wise", "ally" }

AMBIGUOUS == {"ally"}

\* the context words handed to _within_window
ContextWords == {"bank", "banking", "app", "card", "checking", "savings"}

SafetyRemovals == { <<"zelle">>, <<"venmo">>, <<"cash", "app">>, <<"apple", "pay">>, <<"google", "pay">> }

\* every name of the tables above, in the order sorted() gives them
\* (lexicographic on the characters, the blank before the letters)
NameOrder ==
    << <<"ally">>, <<"ally", "bank">>, <<"american", "express">>,
       <<"apple", "pay">>, <<"axis", "bank">>, <<"bank", "of", "america">>,
       <<"bank", "of", "montreal">>, <<"bank", "of", "scotland">>,
       <<"bank", "of", "the", "west">>, <<"barclays">>,
       <<"barclays", "bank">>, <<"capital", "one">>, <<"cash", "app">>,
       <<"chase">>, <<"chime">>, <<"citi">>, <<"citibank">>,
       <<"citizens", "bank">>, <<"credit", "suisse">>,
       <<"deutsche", "bank">>, <<"fifth", "third">>, <<"first", "citizens">>,
       <<"first", "republic">>, <<"google", "pay">>, <<"hsbc">>,
       <<"hsbc", "bank">>, <<"icici", "bank">>, <<"jp", "morgan">>,
       <<"jpmorgan", "chase">>, <<"monzo">>, <<"morgan", "stanley">>,
       <<"nubank">>, <<"pnc">>, <<"pnc", "bank">>, <<"revolut">>,
       <<"royal", "bank", "of", "canada">>, <<"santander">>,
       <<"santander", "bank">>, <<"sofi">>, <<"standard", "chartered">>,
       <<"state", "bank", "of", "india">>, <<"td", "bank">>,
       <<"union", "bank">>, <<"us", "bank">>, <<"venmo">>,
       <<"wells", "fargo">>, <<"wise">>, <<"zelle">> >>

Rank(name) == CHOOSE i \in 1..Len(NameOrder) : NameOrder[i] = name

\* WORD_RE.findall: a token starts with a letter, so a number is not one
_words(text) == SelectSeq(text, LAMBDA u : u # Number)

\* re.search(\\b phrase \\b): the phrase starts at the beginning of a run of
\* letters, ends at the end of one, and its words are one blank apart
PhraseAt(text, phrase, i) ==
    LET n == Len(phrase)
    IN \A k \in 1..n :
          LET u == text[i + k - 1]
          IN /\ u # Number
             /\ k = 1 => u[Len(u)] = phrase[1]
             /\ k = n => u[1] = phrase[n]
             /\ (1 < k /\ k < n) => u = <<phrase[k]>>

_has_phrase(text, phrase) ==
    \E i \in 1..(Len(text) - Len(phrase) + 1) : PhraseAt(text, phrase, i)

\* variant: the window reaches one token further on each side
_within_window_wider(tokens, i, ctx, k) ==
    \E j \in 1..Len(tokens) :
        /\ i - (k + 1) <= j /\ j <= i + (k + 1)
        /\ tokens[j] \in {<<c>> : c \in ctx}

\* any(t in ctx for t in tokens[max(0, i - k) : min(len(tokens), i + k + 1)])
_within_window(tokens, i, ctx, k) ==
    \E j \in 1..Len(tokens) :
        /\ i - k <= j /\ j <= i + k
        /\ tokens[j] \in {<<c>> : c \in ctx}

WindowK == 3

\* step 2 of extract_banks for one brand of SINGLE_WORD_BANKS
SingleHits(text, brand) ==
    LET tokens == _words(text)
    IN IF \A i \in 1..Len(tokens) : tokens[i] # <<brand>> THEN {}
       ELSE IF brand \in AMBIGUOUS
            THEN IF \E i \in 1..Len(tokens) :
                       tokens[i] = <<brand>> /\ _within_window(tokens, i, ContextWords, WindowK)
                 THEN IF _has_phrase(text, <<"ally", "bank">>)
                      THEN {<<"ally", "bank">>}
                      ELSE {<<"ally">>}
                 ELSE {}
            ELSE {<<brand>>}

\* hits after steps 1 and 2
Hits(text) ==
    {p \in BANK_PHRASES : _has_phrase(text, p)}
        \cup UNION {SingleHits(text, brand) : brand \in SINGLE_WORD_BANKS}

\* canon_map.get(h, h)
canon_map(h) ==
    CASE h = <<"jp", "morgan">> -> <<"jpmorgan", "chase">>
      [] h = <<"citibank">> -> <<"citi">>
      [] h = <<"pnc", "bank">> -> <<"pnc">>
      [] h = <<"hsbc", "bank">> -> <<"hsbc">>
      [] h = <<"barclays", "bank">> -> <<"barclays">>
      [] h = <<"santander", "bank">> -> <<"santander">>
      [] h = <<"us", "bank">> -> <<"us", "bank">>
      [] OTHER -> h

\* variant: the hits are returned without canonicalization
NormalizedRaw(text) == Hits(text) \ SafetyRemovals

\* normalized after steps 3 and 4
Normalized(text) == {canon_map(h) : h \in Hits(text)} \ SafetyRemovals

\* sorted(normalized)
extract_banks(text) ==
    IF text = <<>> THEN <<>>
    ELSE LET normalized == Normalized(text)
         IN SelectSeq(NameOrder, LAMBDA name : name \in normalized)

\* ---------------------------------------------------------------- sentiment and topic
\* A term \\bw1\\s+w2\\b is the sequence of its words. Texts are sequences of
\* units as above.
MaxWords == 4        \* units of a text handed to analyze_sentiment or classify_topic

SentimentUnits == { <<"terrible">>, <<"great">>, <<"fraud">>, <<"freeze">>, <<"frozen">>,
                    <<"log">>, <<"in">>, <<"the">> }
TopicUnits == { <<"card">>, <<"virtual">>, <<"fraud">>, <<"app">>, <<"login">>,
                <<"fee">>, <<"the">> }

\* "My card was frozen and this is terrible", lower-cased
FrozenCardText ==
    << <<"my">>, <<"card">>, <<"was">>, <<"frozen">>, <<"and">>, <<"this">>, <<"is">>,
       <<"terrible">> >>

SentimentTexts == TextsOver(SentimentUnits, MaxWords) \cup {FrozenCardText}
TopicTexts == TextsOver(TopicUnits, MaxWords)

ISSUE_TERMS ==
    << <<"login">>, <<"log", "in">>, <<"sign", "in">>, <<"2fa">>, <<"mfa">>,
       <<"otp">>, <<"biometric">>, <<"face", "id">>, <<"touch", "id">>,
       <<"error">>, <<"failed">>, <<"denied">>, <<"declined">>,
       <<"rejected">>, <<"blocked">>, <<"locked">>, <<"freeze">>,
       <<"fraud">>, <<"deposit">>, <<"mobile", "deposit">>,
       <<"check", "deposit">>, <<"transfer">>, <<"zelle">>, <<"wire">>,
       <<"bill", "pay">>, <<"chargeback">>, <<"dispute">>,
       <<"virtual", "card">>, <<"freeze", "card">>, <<"unfreeze">>,
       <<"crash">>, <<"crashing">>, <<"bug">>, <<"slow">>, <<"lag">>,
       <<"hang">>, <<"stuck">>, <<"verification">>, <<"kyc">>,
       <<"address", "update">>, <<"profile">>, <<"password", "reset">> >>

POSITIVE_TERMS ==
    << <<"excellent">>, <<"great">>, <<"amazing">>, <<"perfect">>,
       <<"love">>, <<"fantastic">>, <<"wonderful">>, <<"outstanding">>,
       <<"smooth">>, <<"easy">>, <<"quick">>, <<"fast">>, <<"helpful">>,
       <<"supportive">>, <<"responsive">>, <<"professional">>,
       <<"reliable">> >>

NEGATIVE_TERMS ==
    << <<"terrible">>, <<"awful">>, <<"horrible">>, <<"worst">>, <<"hate">>,
       <<"disgusting">>, <<"frustrating">>, <<"annoying">>,
       <<"disappointing">>, <<"pathetic">>, <<"unacceptable">>,
       <<"nightmare">>, <<"disaster">>, <<"scam">>, <<"fraud">>, <<"steal">>,
       <<"cheat">> >>

TOPIC_PATTERNS ==
    << [topic |-> "login_auth",
        patterns |-> << <<"login">>, <<"sign", "in">>, <<"2fa">>, <<"mfa">>,
                     <<"biometric">>, <<"password">> >>],
       [topic |-> "payments",
        patterns |-> << <<"transfer">>, <<"payment">>, <<"bill", "pay">>,
                     <<"zelle">>, <<"wire">>, <<"deposit">> >>],
       [topic |-> "cards",
        patterns |-> << <<"card">>, <<"credit", "card">>, <<"debit", "card">>,
                     <<"virtual", "card">>, <<"freeze", "card">> >>],
       [topic |-> "mobile_app",
        patterns |-> << <<"app">>, <<"mobile">>, <<"crash">>, <<"bug">>,
                     <<"slow">>, <<"update">> >>],
       [topic |-> "fees",
        patterns |-> << <<"fee">>, <<"charge">>, <<"cost">>, <<"expensive">>,
                     <<"overdraft">> >>],
       [topic |-> "customer_service",
        patterns |-> << <<"support">>, <<"help">>, <<"contact">>, <<"chat">>,
                     <<"call">>, <<"phone">> >>],
       [topic |-> "security",
        patterns |-> << <<"fraud">>, <<"scam">>, <<"security">>, <<"hack">>,
                     <<"breach">>, <<"steal">> >>],
       [topic |-> "account_management",
        patterns |-> << <<"account">>, <<"profile">>, <<"settings">>,
                     <<"close">>, <<"open">>, <<"verify">> >>] >>

RECURSIVE SumSeq(_)
SumSeq(s) == IF s = <<>> THEN 0 ELSE s[1] + SumSeq(Tail(s))

\* len(re.findall(term, text)): the occurrences of a term between word boundaries
findall_count(term, text) ==
    IF Len(term) = 1
    THEN Cardinality({pos \in UNION {{<<i, j>> : j \in 1..Len(text[i])} : i \in 1..Len(text)} :
                         text[pos[1]][pos[2]] = term[1]})
    ELSE Cardinality({i \in 1..(Len(text) - Len(term) + 1) : PhraseAt(text, term, i)})

\* len(REGEX.findall(text)) for an alternation of one-word terms
terms_count(terms, text) == SumSeq([k \in 1..Len(terms) |-> findall_count(terms[k], text)])

\* bool(ISSUE_REGEX.search(text))
is_issue_like(text) == \E k \in 1..Len(ISSUE_TERMS) : findall_count(ISSUE_TERMS[k], text) > 0

\* sentiment scores in tenths: -8 is -0.8
StrongNegative == -8
ModerateNegative == -5
Positive == 6
MildNegative == -3
Neutral == 0

\* variant: the counts are compared before the issue signal is looked at
SentimentDecisionCountsFirst(is_issue, pos_count, neg_count) ==
    IF pos_count > neg_count THEN <<"positive", Positive>>
    ELSE IF neg_count > pos_count THEN <<"negative", MildNegative>>
    ELSE IF is_issue /\ neg_count > 0 THEN <<"negative", StrongNegative>>
    ELSE IF is_issue THEN <<"negative", ModerateNegative>>
    ELSE <<"neutral", Neutral>>

\* the if/elif chain of analyze_sentiment
SentimentDecision(is_issue, pos_count, neg_count) ==
    IF is_issue /\ neg_count > 0 THEN <<"negative", StrongNegative>>
    ELSE IF is_issue THEN <<"negative", ModerateNegative>>
    ELSE IF pos_count > neg_count THEN <<"positive", Positive>>
    ELSE IF neg_count > pos_count THEN <<"negative", MildNegative>>
    ELSE <<"neutral", Neutral>>

analyze_sentiment(text) ==
    SentimentDecision(is_issue_like(text), terms_count(POSITIVE_TERMS, text),
                      terms_count(NEGATIVE_TERMS, text))

\* topic_scores, in the order of TOPIC_PATTERNS
topic_scores(text) ==
    [k \in 1..Len(TOPIC_PATTERNS) |-> terms_count(TOPIC_PATTERNS[k].patterns, text)]

MaxScore(scores) == CHOOSE m \in {scores[k] : k \in 1..Len(scores)} :
                        \A k \in 1..Len(scores) : scores[k] <= m

\* variant: among the topics with the highest score the last declared one wins
classify_topic_last(text) ==
    LET scores == topic_scores(text)
        m == MaxScore(scores)
    IN IF m > 0
       THEN TOPIC_PATTERNS[CHOOSE k \in 1..Len(scores) :
                             scores[k] = m /\ \A j \in (k + 1)..Len(scores) : scores[j] # m].topic
       ELSE "general"

\* max(topic_scores, key=topic_scores.get) returns the first key, in insertion
\* order, whose score is the highest
classify_topic(text) ==
    LET scores == topic_scores(text)
        m == MaxScore(scores)
    IN IF m > 0
       THEN TOPIC_PATTERNS[CHOOSE k \in 1..Len(scores) :
                             scores[k] = m /\ \A j \in 1..(k - 1) : scores[j] # m].topic
       ELSE "general"

\* ---------------------------------------------------------------- PII redaction
\* A text handed to redact is a sequence of characters.  "0" stands for any
\* digit, "a" for any ASCII letter outside the placeholder, "e'" for a letter
\* outside ASCII (a word character for \b, in none of the bracketed classes).
MaxPieces == 3       \* pieces concatenated into a text handed to redact

Rep(c, n) == [i \in 1..n |-> c]

Digit == {"0"}
AsciiLetter == {"a", "R", "E", "D", "A", "C", "T", "P", "I"}
WordChar == Digit \cup AsciiLetter \cup {"_", "e'"}
LocalChar == AsciiLetter \cup Digit \cup {".", "_", "%", "+", "-"}
DomainChar == AsciiLetter \cup Digit \cup {".", "-"}
CardSeparator == {"-", " "}

Pieces ==
    { Rep("0", 16),
      Rep("0", 4) \o <<"-">> \o Rep("0", 4) \o <<"-">> \o Rep("0", 4) \o <<"-">> \o Rep("0", 4),
      Rep("0", 4) \o <<" ">> \o Rep("0", 8) \o <<" ">> \o Rep("0", 4),
      Rep("0", 3) \o <<"-">> \o Rep("0", 2) \o <<"-">> \o Rep("0", 4),
      Rep("0", 9), Rep("0", 19), Rep("0", 7),
      <<"+">> \o Rep("0", 7),
      <<"a", "@", "a", ".", "a", "a">>,
      <<"0">>, <<"a">>, <<"e'">>, <<"_">>, <<"-">>, <<" ">>, <<"+">>, <<"@">>, <<".">> }

RECURSIVE Flatten(_)
Flatten(ps) == IF ps = <<>> THEN <<>> ELSE Head(ps) \o Flatten(Tail(ps))

\* the texts made of at most n pieces
RedactTexts(n) ==
    { Flatten(ps) : ps \in UNION { [1..k -> Pieces] : k \in 0..n } }

PLACEHOLDER == <<"[", "R", "E", "D", "A", "C", "T", "E", "D", "_", "P", "I", "I", "]">>

IsWord(s, i) == i >= 1 /\ i <= Len(s) /\ s[i] \in WordChar

\* \b at the position before character i
Boundary(s, i) == IsWord(s, i - 1) # IsWord(s, i)

\* the first position at or after i whose character is not in C
RunEnd(s, i, C) ==
    CHOOSE j \in i..(Len(s) + 1) :
        /\ \A k \in i..(j - 1) : s[k] \in C
        /\ j = Len(s) + 1 \/ s[j] \notin C

MaxOf(S) == CHOOSE x \in S : \A y \in S : y <= x

\* \b at the start of a pattern: in the text as the code applies it, or for a
\* substring taken on its own (alone), which must then begin with a word character
StartOk(s, i, alone) == IF alone THEN IsWord(s, i) ELSE Boundary(s, i)

\* the ends e in lo..hi at which a greedy quantifier followed by \b can stop;
\* a substring taken on its own may stop at any of them
Stops(s, lo, hi, alone) == {e \in lo..hi : alone \/ Boundary(s, e)}

\* \d{4}[- ]?\d{4}[- ]?\d{4}[- ]?\d{4} from position i: the end, or 0
RECURSIVE CardFrom(_, _, _)
CardFrom(s, i, n) ==
    IF RunEnd(s, i, Digit) < i + 4 THEN 0
    ELSE IF n = 1 THEN i + 4
    ELSE IF i + 4 <= Len(s) /\ s[i + 4] \in CardSeparator
         THEN CardFrom(s, i + 5, n - 1)
         ELSE CardFrom(s, i + 4, n - 1)

\* \b\d{4}[- ]?\d{4}[- ]?\d{4}[- ]?\d{4}\b
match_card(s, i, alone) ==
    LET e == CardFrom(s, i, 4)
    IN IF StartOk(s, i, alone) /\ e # 0 /\ Stops(s, e, e, alone) # {} THEN e ELSE 0

\* \b\d{3}-\d{2}-\d{4}\b
match_ssn(s, i, alone) ==
    LET e == i + 11
    IN IF /\ StartOk(s, i, alone)
          /\ e <= Len(s) + 1
          /\ \A k \in {0, 1, 2, 4, 5, 7, 8, 9, 10} : s[i + k] \in Digit
          /\ s[i + 3] = "-" /\ s[i + 6] = "-"
          /\ Stops(s, e, e, alone) # {}
       THEN e ELSE 0

\* \d{lo,hi}\b from position i: greedy, giving digits back until \b holds
DigitsThenBoundary(s, i, lo, hi, alone) ==
    LET n == RunEnd(s, i, Digit) - i
        stops == Stops(s, i + lo, i + (IF n < hi THEN n ELSE hi), alone)
    IN IF stops # {} THEN MaxOf(stops) ELSE 0

\* \b\d{9,18}\b
match_long(s, i, alone) ==
    IF StartOk(s, i, alone) THEN DigitsThenBoundary(s, i, 9, 18, alone) ELSE 0

\* \b[A-Za-z0-9._%+-]+@[A-Za-z0-9.-]+\.[A-Za-z]{2,}\b
match_email(s, i, alone) ==
    LET at == RunEnd(s, i, LocalChar)
        dom == RunEnd(s, at + 1, DomainChar)
        \* the dots that can be the \. of the pattern, each with its stops
        dots == {p \in (at + 2)..(dom - 1) :
                    /\ s[p] = "."
                    /\ Stops(s, p + 3, RunEnd(s, p + 1, AsciiLetter), alone) # {}}
    IN IF /\ StartOk(s, i, alone)
          /\ at > i /\ at <= Len(s) /\ s[at] = "@"
          /\ dots # {}
       THEN MaxOf(Stops(s, MaxOf(dots) + 3, RunEnd(s, MaxOf(dots) + 1, AsciiLetter), alone))
       ELSE 0

\* \b\+?\d{7,15}\b
match_phone(s, i, alone) ==
    IF ~StartOk(s, i, alone) THEN 0
    ELSE IF s[i] = "+" THEN DigitsThenBoundary(s, i + 1, 7, 15, alone)
    ELSE DigitsThenBoundary(s, i, 7, 15, alone)

PII_PATTERNS == <<"card", "ssn", "long", "email", "phone">>

\* the end of the match of a pattern at position i of s, or 0
MatchAt(patt, s, i, alone) ==
    CASE patt = "card"  -> match_card(s, i, alone)
      [] patt = "ssn"   -> match_ssn(s, i, alone)
      [] patt = "long"  -> match_long(s, i, alone)
      [] patt = "email" -> match_email(s, i, alone)
      [] patt = "phone" -> match_phone(s, i, alone)

\* patt.sub("[REDACTED_PII]", s): leftmost matches, none overlapping
RECURSIVE SubFrom(_, _, _)
SubFrom(patt, s, i) ==
    IF i > Len(s) THEN <<>>
    ELSE LET e == MatchAt(patt, s, i, FALSE)
         IN IF e # 0 THEN PLACEHOLDER \o SubFrom(patt, s, e)
            ELSE <<s[i]>> \o SubFrom(patt, s, i + 1)

\* the text after the first n patterns have been applied in turn
RECURSIVE RedactedAfter(_, _)
RedactedAfter(text, n) ==
    IF n = 0 THEN text ELSE SubFrom(PII_PATTERNS[n], RedactedAfter(text, n - 1), 1)

redact(text) == RedactedAfter(text, Len(PII_PATTERNS))

\* ---------------------------------------------------------------- state
VARIABLES dataFile,   \* scraped_data.json
          hashFile,   \* seen_posts.json
          run,        \* the locals of each in-flight reddit_ml_data request
          last,       \* what the latest request or call returned, until the next one starts
          nops        \* requests started

vars == <<dataFile, hashFile, run, last, nops>>

None == [kind |-> "none"]
Idle == [pc |-> "idle"]

Init ==
    /\ dataFile = Missing
    /\ hashFile = Missing
    /\ run = [r \in Runs |-> Idle]
    /\ last = None
    /\ nops = 0

Acc(r) == [new_data |-> run[r].new_data, new_hashes |-> run[r].new_hashes,
           seen_hashes |-> run[r].seen_hashes, index |-> run[r].index]

\* reddit_ml_data up to its first await: load both files, set up the locals.
\* first is None, or the summary of the run completed right before this one when
\* this request repeats it over an unchanged source.
BeginWith(r, append, nsubs, first, min_score, min_comments) ==
    /\ run[r].pc = "idle"
    /\ nops < MaxOps
    /\ ~(append /\ load_existing_data_raises(dataFile))
    /\ nops' = nops + 1
    /\ LET existing_data == ExistingData(append, dataFile)
           seen_hashes == load_seen_hashes(hashFile)
       IN run' = [run EXCEPT ![r] =
                    [pc |-> "fetch", append |-> append, nsubs |-> nsubs, si |-> 1,
                     min_score |-> min_score, min_comments |-> min_comments,
                     existing_data |-> existing_data, seen_hashes |-> seen_hashes,
                     new_data |-> <<>>, new_hashes |-> {},
                     index |-> StartIndex(existing_data),
                     obs |-> <<>>,
                     first |-> first,
                     pre |-> [data |-> dataFile, hashes |-> hashFile]]]
    /\ last' = None
    /\ UNCHANGED <<dataFile, hashFile>>

\* a request that leaves min_score and min_comments at their defaults
Begin(r, append, nsubs, first) ==
    BeginWith(r, append, nsubs, first, DefaultMinScore, DefaultMinComments)

\* reddit_ml_data with append = true when load_existing_data raises: the
\* request ends with an error response before anything else is done
BeginLoadFail(r) ==
    /\ run[r].pc = "idle"
    /\ nops < MaxOps
    /\ load_existing_data_raises(dataFile)
    /\ nops' = nops + 1
    /\ last' = [kind |-> "load_failed", response |-> "error", append |-> TRUE,
                pre |-> [data |-> dataFile, hashes |-> hashFile],
                post |-> [data |-> dataFile, hashes |-> hashFile]]
    /\ UNCHANGED <<dataFile, hashFile, run>>

\* variant: the loop over the subreddits is left at the first failure or end
NextSubBreak(rr) == [rr EXCEPT !.si = @ + 1, !.pc = "persist"]

\* "continue" / end of the body of "for subreddit_name in subreddit_list":
\* the locals of run rr once the loop has moved to the next subreddit
NextSub(rr) ==
    [rr EXCEPT !.si = @ + 1,
               !.pc = IF rr.si + 1 > rr.nsubs THEN "persist" ELSE "fetch"]

\* await _fetch_posts(...) returns the listing iterator
FetchOk(r) ==
    /\ run[r].pc = "fetch"
    /\ run' = [run EXCEPT ![r].pc = "iter"]
    /\ UNCHANGED <<dataFile, hashFile, last, nops>>

\* await _fetch_posts(...) raises: the run is in the except branch
FetchFail(r) ==
    /\ run[r].pc = "fetch"
    /\ run' = [run EXCEPT ![r].pc = "fetch_failed"]
    /\ UNCHANGED <<dataFile, hashFile, last, nops>>

\* "continue" of the except branch: on to the next subreddit
FetchSkip(r) ==
    /\ run[r].pc = "fetch_failed"
    /\ run' = [run EXCEPT ![r] = NextSub(run[r])]
    /\ UNCHANGED <<dataFile, hashFile, last, nops>>

\* the submission gets past both "continue" statements to the loop over its banks
ReachesFanOut(s, min_score, min_comments) ==
    /\ keep_by_quality(s.score, s.num_comments, min_score, min_comments)
    /\ DetectedBanks(s) # <<>>

\* one submission delivered by the listing and processed; obs keeps the
\* submissions that reached the loop over their banks
ScanPost(r, s) ==
    /\ run[r].pc = "iter"
    /\ ReachesFanOut(s, run[r].min_score, run[r].min_comments) =>
         /\ Len(run[r].obs) < MaxPosts
         \* within one run a post is delivered with one version of its text
         /\ \A k \in 1..Len(run[r].obs) : run[r].obs[k].id = s.id => run[r].obs[k].head = s.head
         /\ run[r].first # None =>
              /\ Len(run[r].obs) < Len(run[r].first.obs)
              /\ s = run[r].first.obs[Len(run[r].obs) + 1]
    /\ LET acc == ProcessSubmission(s, run[r].min_score, run[r].min_comments, Acc(r))
       IN run' = [run EXCEPT ![r].new_data = acc.new_data,
                             ![r].new_hashes = acc.new_hashes,
                             ![r].seen_hashes = acc.seen_hashes,
                             ![r].index = acc.index,
                             ![r].obs = IF ReachesFanOut(s, run[r].min_score, run[r].min_comments)
                                        THEN Append(@, s) ELSE @]
    /\ UNCHANGED <<dataFile, hashFile, last, nops>>

\* the listing raises while being iterated: continue with the next subreddit
IterFail(r) ==
    /\ run[r].pc = "iter"
    /\ run' = [run EXCEPT ![r] = NextSub(run[r])]
    /\ UNCHANGED <<dataFile, hashFile, last, nops>>

\* the listing is exhausted
IterEnd(r) ==
    /\ run[r].pc = "iter"
    /\ run' = [run EXCEPT ![r] = NextSub(run[r])]
    /\ UNCHANGED <<dataFile, hashFile, last, nops>>

all_data(r) == AllData(run[r].existing_data, run[r].new_data)

Summary(r, df, hf) ==
    [kind |-> "run", response |-> "summary",
     new_data |-> run[r].new_data,
     total_new_records |-> Len(run[r].new_data),
     total_all_records |-> Len(run[r].existing_data) + Len(run[r].new_data),
     duplicates_skipped |-> DuplicatesSkipped(run[r].seen_hashes, run[r].new_hashes),
     append |-> run[r].append, nsubs |-> run[r].nsubs,
     min_score |-> run[r].min_score, min_comments |-> run[r].min_comments,
     obs |-> run[r].obs,
     first |-> run[r].first,
     pre |-> run[r].pre,
     post |-> [data |-> df, hashes |-> hf]]

\* the tail of reddit_ml_data: save both files when there is new data, return the summary
Persist(r) ==
    /\ run[r].pc = "persist"
    /\ LET df == IF run[r].new_data # <<>> THEN DataOk(all_data(r)) ELSE dataFile
           hf == IF run[r].new_data # <<>> THEN HashOk(SavedHashes(run[r].seen_hashes, run[r].new_hashes)) ELSE hashFile
       IN /\ dataFile' = df
          /\ hashFile' = hf
          /\ last' = Summary(r, df, hf)
    /\ run' = [run EXCEPT ![r] = Idle]
    /\ UNCHANGED nops

FailStages == {"data_write", "data_write_mb", "hash_open", "hash_write"}

\* variant: the exception of a failed write is swallowed and the summary returned
WriteFailureResponseSummary == "summary"

\* no try/except around save_data and save_seen_hashes: the exception leaves
\* reddit_ml_data and the request ends with an error response
WriteFailureResponse == "error"

\* save_data or save_seen_hashes raises (or the process dies) part-way:
\* open(..., 'w') has truncated the file it was writing. The store is written
\* with ensure_ascii=False, so its write can stop inside a multi-byte character
\* (stage data_write_mb); the hash file holds hexadecimal digests only.
PersistFail(r, stage) ==
    /\ run[r].pc = "persist"
    /\ run[r].new_data # <<>>
    /\ LET df == IF stage = "data_write" THEN Corrupt
                 ELSE IF stage = "data_write_mb" THEN Undecodable
                 ELSE DataOk(all_data(r))
           hf == IF stage = "hash_write" THEN Corrupt ELSE hashFile
       IN /\ dataFile' = df
          /\ hashFile' = hf
          /\ last' = [kind |-> "failed", response |-> WriteFailureResponse,
                      stage |-> stage, new_data |-> run[r].new_data,
                      pre |-> run[r].pre, post |-> [data |-> df, hashes |-> hf]]
    /\ run' = [run EXCEPT ![r] = Idle]
    /\ UNCHANGED nops

\* variant: a run that is abandoned saves the batch it has built so far
CancelSaving(r) ==
    /\ run[r].pc \in {"fetch", "iter"}
    /\ run' = [run EXCEPT ![r] = Idle]
    /\ dataFile' = DataOk(all_data(r))
    /\ hashFile' = HashOk(SavedHashes(run[r].seen_hashes, run[r].new_hashes))
    /\ last' = [kind |-> "cancelled", new_data |-> run[r].new_data, pre |-> run[r].pre,
                post |-> [data |-> dataFile', hashes |-> hashFile']]
    /\ UNCHANGED nops

\* the request is cancelled (or the process stops) while it awaits the source:
\* the locals of the run, its partial batch included, are dropped
Cancel(r) ==
    /\ run[r].pc \in {"fetch", "iter"}
    /\ run' = [run EXCEPT ![r] = Idle]
    /\ last' = [kind |-> "cancelled", new_data |-> run[r].new_data, pre |-> run[r].pre,
                post |-> [data |-> dataFile, hashes |-> hashFile]]
    /\ UNCHANGED <<dataFile, hashFile, nops>>

\* DELETE /data/clear
clear_data ==
    /\ nops < MaxOps
    /\ nops' = nops + 1
    /\ dataFile' = Missing
    /\ hashFile' = Missing
    /\ last' = [kind |-> "clear", pre |-> [data |-> dataFile, hashes |-> hashFile],
                post |-> [data |-> Missing, hashes |-> Missing]]
    /\ UNCHANGED run

\* the summary of a run without the summary of the run before it
StripFirst(sm) == [sm EXCEPT !.first = None]

AllIdle == \A r \in Runs : run[r].pc = "idle"

Step(r) ==
    \/ FetchOk(r)
    \/ FetchFail(r)
    \/ FetchSkip(r)
    \/ \E s \in Submissions : ScanPost(r, s)
    \/ IterFail(r)
    \/ IterEnd(r)
    \/ Persist(r)
    \/ \E stage \in FailStages : PersistFail(r, stage)
    \/ Cancel(r)

\* requests are served one after the other
BeginSeq ==
    /\ AllIdle
    /\ \/ \E append \in BOOLEAN, nsubs \in {MaxSubs} : Begin(1, append, nsubs, None)
       \/ last.kind = "run" /\ Begin(1, last.append, last.nsubs, StripFirst(last))
       \/ BeginLoadFail(1)
ClearSeq == AllIdle /\ clear_data

Next ==
    \/ BeginSeq
    \/ ClearSeq
    \/ \E r \in Runs : Step(r)

Spec == Init /\ [][Next]_vars

\* requests overlap: another request is served while one awaits the source
BeginAny ==
    /\ nops < MaxConcOps
    /\ \E r \in Runs :
          \/ \E append \in BOOLEAN, nsubs \in {MaxSubs} : Begin(r, append, nsubs, None)
          \/ BeginLoadFail(r)
ClearAny == nops < MaxConcOps /\ clear_data

NextConc ==
    \/ BeginAny
    \/ ClearAny
    \/ \E r \in Runs : Step(r)

SpecConc == Init /\ [][NextConc]_vars

\* one request on a fresh installation, with any thresholds
BeginOne ==
    /\ nops = 0
    /\ \E append \in BOOLEAN, min_score \in MinScores, min_comments \in MinComments :
          BeginWith(1, append, MaxSubsOne, None, min_score, min_comments)

NextOne ==
    \/ BeginOne
    \/ Step(1)

SpecOne == Init /\ [][NextOne]_vars

\* extract_banks called on its own with any text; it keeps no state between
\* calls, so a behaviour holds one call
CallExtractBanks ==
    /\ last = None
    /\ \E text \in Texts :
          last' = [kind |-> "extract_banks", text |-> text, banks |-> extract_banks(text)]
    /\ UNCHANGED <<dataFile, hashFile, run, nops>>

NextBanks == CallExtractBanks

SpecBanks == Init /\ [][NextBanks]_vars

\* analyze_sentiment called on its own with any text
CallAnalyzeSentiment ==
    /\ last = None
    /\ \E text \in SentimentTexts :
          LET res == analyze_sentiment(text)
          IN last' = [kind |-> "analyze_sentiment", text |-> text,
                      is_issue |-> is_issue_like(text),
                      pos_count |-> terms_count(POSITIVE_TERMS, text),
                      neg_count |-> terms_count(NEGATIVE_TERMS, text),
                      label |-> res[1], score |-> res[2]]
    /\ UNCHANGED <<dataFile, hashFile, run, nops>>

\* classify_topic called on its own with any text
CallClassifyTopic ==
    /\ last = None
    /\ \E text \in TopicTexts :
          last' = [kind |-> "classify_topic", text |-> text,
                   scores |-> topic_scores(text), topic |-> classify_topic(text)]
    /\ UNCHANGED <<dataFile, hashFile, run, nops>>

NextAnnotate ==
    \/ CallAnalyzeSentiment
    \/ CallClassifyTopic

SpecAnnotate == Init /\ [][NextAnnotate]_vars

\* redact called on its own with any text
CallRedact ==
    /\ last = None
    /\ \E text \in RedactTexts(MaxPieces) :
          last' = [kind |-> "redact", text |-> text, out |-> redact(text),
                   passes |-> [n \in 0..Len(PII_PATTERNS) |-> RedactedAfter(text, n)]]
    /\ UNCHANGED <<dataFile, hashFile, run, nops>>

SpecRedact == Init /\ [][CallRedact]_vars

\* ---------------------------------------------------------------- listings with comments
\* reddit_features and reddit_banks_multi over one listing.  A post of the
\* listing is its position; keep says whether it passes the endpoint's filters
\* (mentions_bank, or quality, banks and issue_only); each of its top-level
\* comments is "kept" or "dropped" by the comment filters.  Every kept post
\* mentions the same one bank.
MaxListing == 2      \* posts in the listing
MaxComments == 2     \* top-level comments of a post
TopLevelCap == 50
DefaultPerBankLimit == 10

Endpoints == {"reddit_features", "reddit_banks_multi"}
CommentKinds == {"kept", "dropped"}
CommentLists == UNION { [1..n -> CommentKinds] : n \in 0..MaxComments }
ListedPosts ==
    {[keep |-> TRUE, comments |-> cs] : cs \in CommentLists}
        \cup {[keep |-> FALSE, comments |-> <<>>]}
Listings == UNION { [1..n -> ListedPosts] : n \in 1..MaxListing }
PerBankLimits == {1, DefaultPerBankLimit}

\* the comment items of the first n top-level comments: the kept ones
RECURSIVE comment_items(_, _)
comment_items(cs, n) ==
    IF n = 0 THEN <<>>
    ELSE IF cs[n] = "kept" THEN Append(comment_items(cs, n - 1), n)
    ELSE comment_items(cs, n - 1)

TopLevel(cs) == SubSeq(cs, 1, IF Len(cs) < TopLevelCap THEN Len(cs) ELSE TopLevelCap)

\* items.append(item), or lst.append(post_info) while the bank's list is below
\* per_bank_limit
AppendPost(rr, has_comments, comments) ==
    LET item == [id |-> rr.i, has_comments |-> has_comments, comments |-> comments]
    IN IF rr.endpoint = "reddit_banks_multi" /\ Len(rr.items) >= rr.per_bank_limit
       THEN rr.items
       ELSE Append(rr.items, item)

\* the request up to the first post of the listing
BeginListing ==
    /\ last = None
    /\ run[1].pc = "idle"
    /\ \E endpoint \in Endpoints, include_comments \in BOOLEAN,
          per_bank_limit \in PerBankLimits, listing \in Listings :
            run' = [run EXCEPT ![1] =
                      [pc |-> "c_next", endpoint |-> endpoint,
                       include_comments |-> include_comments,
                       per_bank_limit |-> per_bank_limit, listing |-> listing,
                       i |-> 0, items |-> <<>>, failed |-> {}]]
    /\ UNCHANGED <<dataFile, hashFile, last, nops>>

\* _fetch_posts raises: 502 from reddit_features, no subreddit left for
\* reddit_banks_multi
FetchListingFail ==
    /\ last = None
    /\ run[1].pc = "idle"
    /\ \E endpoint \in Endpoints, include_comments \in BOOLEAN,
          per_bank_limit \in PerBankLimits :
            last' = [kind |-> "listing",
                     response |-> IF endpoint = "reddit_features" THEN "error" ELSE "ok",
                     endpoint |-> endpoint, include_comments |-> include_comments,
                     per_bank_limit |-> per_bank_limit, listing |-> <<>>,
                     items |-> <<>>, failed |-> {}, reached |-> 0]
    /\ UNCHANGED <<dataFile, hashFile, run, nops>>

\* the next post of the listing, up to its first await or to the end of its iteration
NextPost ==
    /\ run[1].pc = "c_next"
    /\ run[1].i < Len(run[1].listing)
    /\ LET rr == [run[1] EXCEPT !.i = @ + 1]
           post == rr.listing[rr.i]
       IN run' = [run EXCEPT ![1] =
                    IF ~post.keep THEN rr
                    ELSE IF rr.include_comments THEN [rr EXCEPT !.pc = "c_load"]
                    ELSE [rr EXCEPT !.items =
                             AppendPost(rr, rr.endpoint = "reddit_banks_multi", <<>>)]]
    /\ UNCHANGED <<dataFile, hashFile, last, nops>>

ListingResult(response, items) ==
    [kind |-> "listing", response |-> response, endpoint |-> run[1].endpoint,
     include_comments |-> run[1].include_comments,
     per_bank_limit |-> run[1].per_bank_limit, listing |-> run[1].listing,
     items |-> items, failed |-> run[1].failed, reached |-> run[1].i]

\* the listing is exhausted: the response
ListingEnd ==
    /\ run[1].pc = "c_next"
    /\ run[1].i = Len(run[1].listing)
    /\ last' = ListingResult("ok", run[1].items)
    /\ run' = [run EXCEPT ![1] = Idle]
    /\ UNCHANGED <<dataFile, hashFile, nops>>

\* the listing raises while being iterated: 502 from reddit_features, the
\* subreddit is given up by reddit_banks_multi
ListingFail ==
    /\ run[1].pc = "c_next"
    /\ run[1].i < Len(run[1].listing)
    /\ last' = IF run[1].endpoint = "reddit_features"
               THEN ListingResult("error", <<>>)
               ELSE ListingResult("ok", run[1].items)
    /\ run' = [run EXCEPT ![1] = Idle]
    /\ UNCHANGED <<dataFile, hashFile, nops>>

\* the except branch of the comment block followed by the append of the post;
\* done is the number of top-level comments handled before the exception
CommentsFailedAbort(rr, done) ==
    [rr EXCEPT !.pc = "c_next", !.failed = @ \cup {[post |-> rr.i, done |-> done]}]

CommentsFailed(rr, done) ==
    LET cs == rr.listing[rr.i].comments
        kept == IF rr.endpoint = "reddit_features" THEN <<>> ELSE comment_items(cs, done)
    IN [rr EXCEPT !.pc = "c_next", !.failed = @ \cup {[post |-> rr.i, done |-> done]},
                  !.items = AppendPost(rr, TRUE, kept)]

\* await submission.load()
LoadOk ==
    /\ run[1].pc = "c_load"
    /\ run' = [run EXCEPT ![1].pc = "c_more"]
    /\ UNCHANGED <<dataFile, hashFile, last, nops>>

LoadFail ==
    /\ run[1].pc = "c_load"
    /\ run' = [run EXCEPT ![1] = CommentsFailed(run[1], 0)]
    /\ UNCHANGED <<dataFile, hashFile, last, nops>>

\* await submission.comments.replace_more(limit=0)
ReplaceMoreOk ==
    /\ run[1].pc = "c_more"
    /\ run' = [run EXCEPT ![1].pc = "c_scan"]
    /\ UNCHANGED <<dataFile, hashFile, last, nops>>

ReplaceMoreFail ==
    /\ run[1].pc = "c_more"
    /\ run' = [run EXCEPT ![1] = CommentsFailed(run[1], 0)]
    /\ UNCHANGED <<dataFile, hashFile, last, nops>>

\* list(submission.comments) and the loop over the first 50: all of them handled
ScanCommentsOk ==
    /\ run[1].pc = "c_scan"
    /\ LET cs == TopLevel(run[1].listing[run[1].i].comments)
       IN run' = [run EXCEPT ![1] =
                    [run[1] EXCEPT !.pc = "c_next",
                                   !.items = AppendPost(run[1], TRUE, comment_items(cs, Len(cs)))]]
    /\ UNCHANGED <<dataFile, hashFile, last, nops>>

\* list(submission.comments) raises (done = 0), or the handling of comment
\* done + 1 raises after done comments were handled
ScanCommentsFail ==
    /\ run[1].pc = "c_scan"
    /\ \E done \in 0..Len(TopLevel(run[1].listing[run[1].i].comments)) :
          /\ done = 0 \/ done < Len(TopLevel(run[1].listing[run[1].i].comments))
          /\ run' = [run EXCEPT ![1] = CommentsFailed(run[1], done)]
    /\ UNCHANGED <<dataFile, hashFile, last, nops>>

NextListing ==
    \/ BeginListing
    \/ FetchListingFail
    \/ NextPost
    \/ ListingEnd
    \/ ListingFail
    \/ LoadOk
    \/ LoadFail
    \/ ReplaceMoreOk
    \/ ReplaceMoreFail
    \/ ScanCommentsOk
    \/ ScanCommentsFail

SpecListing == Init /\ [][NextListing]_vars

\* ---------------------------------------------------------------- format=csv
\* the CSV text of a list of records: a header row and one row per record, or
\* nothing when the list is empty
CsvBody(output_data) ==
    IF output_data = <<>> THEN <<>> ELSE <<"header">> \o output_data

\* output_data = all_data if append else new_data; all_data is assigned only
\* under "if new_data:", so reading it after a run without new records raises
\* UnboundLocalError
OutputDataRaises(r) == run[r].append /\ run[r].new_data = <<>>

OutputData(r) == IF run[r].append THEN all_data(r) ELSE run[r].new_data

\* the tail of reddit_ml_data for a request made with format=csv (the format
\* is read nowhere before the tail): save both files when there is new data,
\* return the CSV text
PersistCsv(r) ==
    /\ run[r].pc = "persist"
    /\ LET df == IF run[r].new_data # <<>> THEN DataOk(all_data(r)) ELSE dataFile
           hf == IF run[r].new_data # <<>> THEN HashOk(SavedHashes(run[r].seen_hashes, run[r].new_hashes)) ELSE hashFile
       IN /\ dataFile' = df
          /\ hashFile' = hf
          /\ last' = [kind |-> "csv",
                      response |-> IF OutputDataRaises(r) THEN "error" ELSE "csv",
                      body |-> IF OutputDataRaises(r) THEN <<>> ELSE CsvBody(OutputData(r)),
                      append |-> run[r].append, new_data |-> run[r].new_data,
                      pre |-> run[r].pre, post |-> [data |-> df, hashes |-> hf]]
    /\ run' = [run EXCEPT ![r] = Idle]
    /\ UNCHANGED nops

NextCsv ==
    \/ Next
    \/ PersistCsv(1)

SpecCsv == Init /\ [][NextCsv]_vars

\* ---------------------------------------------------------------- clear during a run
\* a first request served alone, then a second one during which the files are
\* cleared
BeginBeforeClear ==
    \/ nops = 0 /\ \E append \in BOOLEAN : Begin(1, append, MaxSubs, None)
    \/ /\ nops = 1 /\ AllIdle
       /\ \/ \E append \in BOOLEAN : Begin(2, append, MaxSubs, None)
          \/ BeginLoadFail(2)

ClearDuringRun == nops = 2 /\ ~AllIdle /\ clear_data

NextClear ==
    \/ BeginBeforeClear
    \/ ClearDuringRun
    \/ \E r \in Runs : Step(r)

SpecClear == Init /\ [][NextClear]_vars

\* ---------------------------------------------------------------- CSV embedding script
\* backend/embed_csv.py.  The script is process 1; its record also carries the
\* posts table it fills, which outlives a launch.  A row is <<file, position>>.
MaxCsvRows == 3      \* rows of a CSV file
BatchSize == 2       \* batch_size
MaxLaunches == 2     \* times the script is launched
NFiles == 2
max_retries == 3
InsertMaxRetries == 3

\* str(e) of an exception, as the set of the telling substrings it holds
ApiErrorStrings == {{"429"}, {"quota"}, {"rate_limit"}, {"timeout"}}

\* "429" in error_str or "quota" in error_str.lower() or "rate_limit" in error_str.lower()
is_rate_limit(error_str) == error_str \cap {"429", "quota", "rate_limit"} # {}

\* Exception("Rate limit exceeded. Please wait and try again later.")
RateLimitExceeded == {"rate limit exceeded"}

\* "quota" in str(e).lower() or "429" in str(e)
is_quota_stop(error_str) == error_str \cap {"quota", "429"} # {}

RowCounts == [1..NFiles -> 1..MaxCsvRows]

Script == run[1]

\* rows left after rows = rows[start_from_row:]
total_rows(s) == s.nrows[s.f] - s.start

current_row(s) == <<s.f, s.start + s.i + s.idx + 1>>

BatchLen(s) == IF total_rows(s) - s.i < BatchSize THEN total_rows(s) - s.i ELSE BatchSize

\* embed_and_store_csv returns or raises: main goes on to the next file
NextFile(s) == [s EXCEPT !.pc = "e_file", !.f = @ + 1]

\* the end of a batch: the next batch, or the end of the file
AfterBatch(s) ==
    IF s.i + BatchSize < total_rows(s)
    THEN [s EXCEPT !.pc = "e_embed", !.i = @ + BatchSize, !.idx = 0,
                   !.attempt = 0, !.records_to_insert = <<>>]
    ELSE NextFile(s)

\* the end of the iteration for one row: the next row, the insert of the
\* batch, or the next batch when nothing is to be inserted
AfterRow(s) ==
    IF s.idx + 1 < BatchLen(s)
    THEN [s EXCEPT !.pc = "e_embed", !.idx = @ + 1, !.attempt = 0]
    ELSE IF s.records_to_insert # <<>>
         THEN [s EXCEPT !.pc = "e_insert", !.retry_count = 0]
         ELSE AfterBatch(s)

\* python embed_csv.py: the first launch, or a launch after the script ended
\* or was stopped
Launch ==
    \/ /\ Script.pc = "idle"
       /\ last = None
       /\ \E nrows \in RowCounts :
             run' = [run EXCEPT ![1] =
                       [pc |-> "e_file", nrows |-> nrows, table |-> <<>>, launches |-> 1,
                        f |-> 1, start |-> 0, i |-> 0, idx |-> 0, attempt |-> 0,
                        retry_count |-> 0, records_to_insert |-> <<>>,
                        skipped |-> {}, stored |-> {}, gave_up |-> FALSE]]
       /\ UNCHANGED <<dataFile, hashFile, last, nops>>
    \/ /\ Script.pc = "e_exit"
       /\ Script.launches < MaxLaunches
       /\ run' = [run EXCEPT ![1] =
                    [Script EXCEPT !.pc = "e_file", !.launches = @ + 1, !.f = 1,
                                   !.gave_up = FALSE]]
       /\ UNCHANGED <<dataFile, hashFile, last, nops>>

\* the script is stopped part-way
Stop ==
    /\ Script.pc \in {"e_file", "e_embed", "e_insert"}
    /\ run' = [run EXCEPT ![1].pc = "e_exit"]
    /\ UNCHANGED <<dataFile, hashFile, last, nops>>

\* the rows of file f among the first n
FirstRows(f, n) == {<<f, p>> : p \in 1..n}

TableRows(s) == {s.table[k] : k \in 1..Len(s.table)}

\* embed_and_store_csv up to its first row, with start_from_row = 0:
\* existing_count is the number of records of the table (count_ok), or 0 when
\* the query raises; rows[0] raises IndexError when no row is left
OpenFileWith(s, existing_count) ==
    LET opened == [s EXCEPT !.start = existing_count, !.i = 0, !.idx = 0, !.attempt = 0,
                            !.records_to_insert = <<>>, !.gave_up = FALSE,
                            !.skipped = FirstRows(s.f, IF existing_count < s.nrows[s.f]
                                                       THEN existing_count ELSE s.nrows[s.f]),
                            !.stored = TableRows(s) \cap FirstRows(s.f, s.nrows[s.f])]
    IN IF existing_count >= s.nrows[s.f] THEN NextFile(opened)
       ELSE [opened EXCEPT !.pc = "e_embed"]

\* main: the next CSV file, or the end of the script
MainLoop ==
    /\ Script.pc = "e_file"
    /\ run' = [run EXCEPT ![1] =
                 IF Script.f > NFiles THEN [Script EXCEPT !.pc = "e_exit"]
                 ELSE OpenFileWith(Script, Len(Script.table))]
    /\ UNCHANGED <<dataFile, hashFile, last, nops>>

\* the same when the count query of check_existing_records raises
MainLoopCountFails ==
    /\ Script.pc = "e_file"
    /\ Script.f <= NFiles
    /\ run' = [run EXCEPT ![1] = OpenFileWith(Script, 0)]
    /\ UNCHANGED <<dataFile, hashFile, last, nops>>

\* os.path.exists(csv_file) is false
FileMissing ==
    /\ Script.pc = "e_file"
    /\ Script.f <= NFiles
    /\ run' = [run EXCEPT ![1] = NextFile(Script)]
    /\ UNCHANGED <<dataFile, hashFile, last, nops>>

\* one attempt of get_embedding succeeds: the record joins the batch
EmbedOk ==
    /\ Script.pc = "e_embed"
    /\ run' = [run EXCEPT ![1] =
                 AfterRow([Script EXCEPT !.records_to_insert = Append(@, current_row(Script))])]
    /\ UNCHANGED <<dataFile, hashFile, last, nops>>

\* what embed_and_store_csv does with the exception get_embedding raised
\* (lines 202-211 and 225-227): return on a quota message, else skip the row
EmbeddingRaised(s, error_str) ==
    IF is_quota_stop(error_str) THEN NextFile(s) ELSE AfterRow(s)

\* one attempt of get_embedding raises: wait and try again on a rate limit
\* while attempts are left, else raise to embed_and_store_csv
EmbedError ==
    /\ Script.pc = "e_embed"
    /\ \E error_str \in ApiErrorStrings :
          run' = [run EXCEPT ![1] =
                    IF is_rate_limit(error_str)
                    THEN IF Script.attempt < max_retries - 1
                         THEN [Script EXCEPT !.attempt = @ + 1]
                         ELSE EmbeddingRaised([Script EXCEPT !.gave_up = TRUE], RateLimitExceeded)
                    ELSE EmbeddingRaised(Script, error_str)]
    /\ UNCHANGED <<dataFile, hashFile, last, nops>>

\* the batch is inserted
InsertOk ==
    /\ Script.pc = "e_insert"
    /\ run' = [run EXCEPT ![1] =
                 AfterBatch([Script EXCEPT !.table = @ \o Script.records_to_insert])]
    /\ UNCHANGED <<dataFile, hashFile, last, nops>>

\* the insert raises: a transient error is retried while attempts are left,
\* else the batch is given up
InsertError ==
    /\ Script.pc = "e_insert"
    /\ \E is_transient \in BOOLEAN :
          run' = [run EXCEPT ![1] =
                    IF is_transient /\ Script.retry_count < InsertMaxRetries - 1
                    THEN [Script EXCEPT !.retry_count = @ + 1]
                    ELSE AfterBatch(Script)]
    /\ UNCHANGED <<dataFile, hashFile, last, nops>>

NextEmbed ==
    \/ Launch
    \/ Stop
    \/ MainLoop
    \/ MainLoopCountFails
    \/ FileMissing
    \/ EmbedOk
    \/ EmbedError
    \/ InsertOk
    \/ InsertError

SpecEmbed == Init /\ [][NextEmbed]_vars

\* ---------------------------------------------------------------- properties
Recs == load_existing_data(dataFile)
Hashes == load_seen_hashes(hashFile)
RecSet(recs) == {recs[i] : i \in 1..Len(recs)}
HashesOf(recs) == {recs[i].hash : i \in 1..Len(recs)}
IsPrefix(a, b) == Len(a) <= Len(b) /\ \A i \in 1..Len(a) : a[i] = b[i]
PreRecs == load_existing_data(last.pre.data)
PostRecs == load_existing_data(last.post.data)
PreHashes == load_seen_hashes(last.pre.hashes)
PostHashes == load_seen_hashes(last.post.hashes)

\* C1: the persisted store never holds two records for the same (post_id, bank_name) pair.
C1_OneRecordPerPair ==
    \A i, j \in 1..Len(Recs) :
        (Recs[i].post_id = Recs[j].post_id /\ Recs[i].bank_name = Recs[j].bank_name) => i = j

\* A run that repeats the run completed right before it: same parameters, the
\* same submissions delivered, starting from the files that run left.
IsRerun ==
    /\ last.kind = "run"
    /\ last.first # None
    /\ last.obs = last.first.obs
    /\ last.append = last.first.append
    /\ last.pre = last.first.post

\* C2: repeating a run over the same source content from the state the first run
\* left returns no new record and leaves both persisted files as they were.
C2_RerunIdempotent ==
    IsRerun => /\ last.new_data = <<>>
               /\ last.total_new_records = 0
               /\ last.post = last.pre

C2_Witness ==
    /\ IsRerun
    /\ last.first.new_data # <<>>
    /\ last.new_data = <<>>
    /\ PostRecs = PreRecs

\* C3 as stated: for two consecutive runs over an unchanged source, from any
\* persisted state, the second run's duplicates_skipped is the first run's
\* total_new_records.
C3_DupsEqualPrevNew_AnyState ==
    IsRerun => last.duplicates_skipped = last.first.total_new_records

\* C3 amended: the same, when the seen-hash set loaded by the first run was empty.
C3_DupsEqualPrevNew_FromEmpty ==
    (IsRerun /\ load_seen_hashes(last.first.pre.hashes) = {})
        => last.duplicates_skipped = last.first.total_new_records

C3_Witness ==
    /\ IsRerun
    /\ load_seen_hashes(last.first.pre.hashes) = {}
    /\ last.first.total_new_records = 2
    /\ last.duplicates_skipped = 2

\* C4: the index values of the persisted records are exactly 0 .. n-1, each once.
C4_IndexExact ==
    /\ {Recs[i].index : i \in 1..Len(Recs)} = 0..(Len(Recs) - 1)
    /\ \A i, j \in 1..Len(Recs) : Recs[i].index = Recs[j].index => i = j

C4_Witness ==
    /\ last.kind = "run"
    /\ ~last.append
    /\ Len(PreRecs) > 1
    /\ last.new_data # <<>>
    /\ Recs = last.new_data
    /\ Recs[1].index = 0

\* C5: after a failure during persist, the record store and the seen-hash set
\* either both contain the new batch or neither does.
C5_PersistAtomic ==
    last.kind = "failed" =>
        \/ /\ RecSet(last.new_data) \subseteq RecSet(PostRecs)
           /\ HashesOf(last.new_data) \subseteq PostHashes
        \/ /\ RecSet(last.new_data) \cap RecSet(PostRecs) = {}
           /\ HashesOf(last.new_data) \cap PostHashes = {}

\* C6: two runs in flight at the same time, both appending to the store, never
\* give the same index to records of two different (post_id, bank_name) pairs.
C6_NoSharedIndex ==
    \A r1, r2 \in Runs :
        (/\ r1 # r2
         /\ run[r1].pc # "idle" /\ run[r1].append
         /\ run[r2].pc # "idle" /\ run[r2].append) =>
            \A i \in 1..Len(run[r1].new_data), j \in 1..Len(run[r2].new_data) :
                (\/ run[r1].new_data[i].post_id # run[r2].new_data[j].post_id
                 \/ run[r1].new_data[i].bank_name # run[r2].new_data[j].bank_name)
                    => run[r1].new_data[i].index # run[r2].new_data[j].index

\* C7: processing a submission that passes the quality filter, has N detected
\* banks and none of its hashes in the seen set appends exactly N records with
\* its post_id, pairwise distinct bank_name and hash, and N consecutive indexes.
C7_FanOut ==
    [][\A r \in Runs :
         (/\ run[r].pc = "iter"
          /\ run'[r].pc = "iter"
          /\ Len(run'[r].obs) = Len(run[r].obs) + 1
          /\ LET s == run'[r].obs[Len(run'[r].obs)]
             IN /\ keep_by_quality(s.score, s.num_comments, run[r].min_score, run[r].min_comments)
                /\ \A b \in s.banks : generate_post_hash(s.id, b, s.head) \notin run[r].seen_hashes)
         => LET s == run'[r].obs[Len(run'[r].obs)]
                N == Cardinality(s.banks)
                old == run[r].new_data
                new == run'[r].new_data
                added == SubSeq(new, Len(old) + 1, Len(new))
            IN /\ Len(new) = Len(old) + N
               /\ IsPrefix(old, new)
               /\ \A k \in 1..Len(added) :
                     /\ added[k].post_id = s.id
                     /\ added[k].bank_name \in s.banks
                     /\ added[k].index = run[r].index + k - 1
               /\ \A k, m \in 1..Len(added) :
                     k # m => /\ added[k].bank_name # added[m].bank_name
                              /\ added[k].hash # added[m].hash
    ]_vars

C7_Witness ==
    \E r \in Runs :
        /\ run[r].pc = "iter"
        /\ Len(run[r].existing_data) > 0
        /\ Len(run[r].obs) = 1
        /\ Cardinality(run[r].obs[1].banks) = 2
        /\ Len(run[r].new_data) = 2
        /\ run[r].new_data[1].post_id = run[r].new_data[2].post_id
        /\ run[r].new_data[1].bank_name # run[r].new_data[2].bank_name
        /\ run[r].new_data[2].index = run[r].new_data[1].index + 1

C10_DestroyedTogether ==
    last.kind \in {"run", "clear"} =>
        /\ \A rec \in RecSet(PreRecs) : rec \notin RecSet(PostRecs) => rec.hash \notin PostHashes
        /\ \A h \in PreHashes : h \notin PostHashes => h \notin HashesOf(PostRecs)

\* C11: when fetching the listing of one subreddit raises, the run neither
\* ends nor writes anything: it goes on to the next subreddit of the list with
\* its batch untouched. The subreddits are visited one by one in list order and
\* the persist step is reached only after the last of them.
C11_FailSoftSources ==
    /\ [](\A r \in Runs :
            /\ run[r].pc \in {"fetch", "fetch_failed", "iter"} => run[r].si \in 1..run[r].nsubs
            /\ run[r].pc = "persist" => run[r].si = run[r].nsubs + 1)
    /\ [][\A r \in Runs :
            /\ (run[r].pc # "idle" /\ run'[r].pc # "idle") =>
                  run'[r].si \in {run[r].si, run[r].si + 1}
            /\ (run[r].pc = "fetch" /\ run'[r].pc = "fetch_failed") =>
                  /\ run'[r].si = run[r].si
                  /\ Acc(r)' = Acc(r)
                  /\ UNCHANGED <<dataFile, hashFile, last>>
            /\ (run[r].pc = "fetch_failed" /\ run'[r] # run[r]) =>
                  /\ run'[r].si = run[r].si + 1
                  /\ run'[r].pc = IF run[r].si < run[r].nsubs THEN "fetch" ELSE "persist"
                  /\ Acc(r)' = Acc(r)
                  /\ UNCHANGED <<dataFile, hashFile, last>>
       ]_vars

\* the fetch of a subreddit in the middle of the list has raised in a run that
\* holds records built from an earlier subreddit and has subreddits left
C11_Witness ==
    \E r \in Runs :
        /\ run[r].pc = "fetch_failed"
        /\ 1 < run[r].si
        /\ run[r].si < run[r].nsubs
        /\ run[r].new_data # <<>>

\* C12: a run that is cancelled before its persist step leaves the record store
\* and the seen-hash set exactly as they were when it started: no record and no
\* hash of its partial batch is persisted.
C12_CancelLeavesFiles ==
    last.kind = "cancelled" =>
        /\ last.post = last.pre
        /\ dataFile = last.pre.data
        /\ hashFile = last.pre.hashes

\* a run cancelled with a non-empty batch, over a populated store
C12_Witness ==
    /\ last.kind = "cancelled"
    /\ last.new_data # <<>>
    /\ PreRecs # <<>>
    /\ RecSet(last.new_data) \cap RecSet(Recs) = {}
    /\ HashesOf(last.new_data) \cap Hashes = {}
    /\ last.post = last.pre

\* C13: a run in which writing the store or the hash set fails ends with an
\* error response, and no run returns a summary listing new records that are
\* not, with their hashes, in the persisted files.
C13_NoSummaryOfUnsaved ==
    last.kind \in {"run", "failed"} =>
        /\ last.kind = "failed" => last.response = "error"
        /\ last.response = "summary" =>
              /\ RecSet(last.new_data) \subseteq RecSet(PostRecs)
              /\ HashesOf(last.new_data) \subseteq PostHashes

\* a run whose write of the store failed: error response, batch not persisted
C13_Witness ==
    /\ last.kind = "failed"
    /\ last.stage = "data_write"
    /\ last.response = "error"
    /\ last.new_data # <<>>
    /\ ~(RecSet(last.new_data) \subseteq RecSet(PostRecs))

\* C14: a request started from files that are missing or cannot be parsed does
\* not fail while loading them: it starts with an empty store (when it appends)
\* and an empty seen-hash set.
C14_LoadNeverFatal ==
    /\ last.kind # "load_failed"
    /\ \A r \in Runs :
          run[r].pc # "idle" =>
              /\ (run[r].append /\ run[r].pre.data.st # "ok") => run[r].existing_data = NoRecords
              /\ run[r].pre.hashes.st # "ok" => run[r].seen_hashes = run[r].new_hashes

\* C15: keep_by_quality holds exactly when the score reaches min_score and the
\* number of comments reaches min_comments, and every record a run has built,
\* returned or persisted has likes >= min_score and replies >= min_comments of
\* that run and comes from a submission that passes keep_by_quality.
C15_QualityFloor ==
    /\ \A s \in Submissions, ms \in MinScores, mc \in MinComments :
          keep_by_quality(s.score, s.num_comments, ms, mc)
              <=> (s.score >= ms /\ s.num_comments >= mc)
    /\ \A r \in Runs :
          run[r].pc # "idle" =>
              /\ \A k \in 1..Len(run[r].new_data) :
                    /\ run[r].new_data[k].likes >= run[r].min_score
                    /\ run[r].new_data[k].replies >= run[r].min_comments
              /\ \A k \in 1..Len(run[r].obs) :
                    /\ run[r].obs[k].score >= run[r].min_score
                    /\ run[r].obs[k].num_comments >= run[r].min_comments
    /\ last.kind = "run" =>
          \A rec \in RecSet(last.new_data) \cup RecSet(PostRecs) :
              /\ rec.likes >= last.min_score
              /\ rec.replies >= last.min_comments

\* a completed run with min_comments below its default that stored a record of
\* a submission with exactly min_score likes and min_comments replies
C15_Witness ==
    /\ last.kind = "run"
    /\ last.min_score = DefaultMinScore
    /\ last.min_comments = DefaultMinComments - 1
    /\ \E rec \in RecSet(PostRecs) : rec.replies = last.min_comments /\ rec.likes = last.min_score

BanksReturned == {last.banks[i] : i \in 1..Len(last.banks)}

\* some token ally has a context word at a token distance of at most 3
AllyNearContext(tokens) ==
    \E i, j \in 1..Len(tokens) :
        /\ tokens[i] = <<"ally">>
        /\ tokens[j] \in {<<c>> : c \in ContextWords}
        /\ i - j <= 3 /\ j - i <= 3

\* every single-word brand other than ally that is a token of the text is
\* returned under its canonical name
PlainBrandsReturned(tokens) ==
    \A brand \in SINGLE_WORD_BANKS \ AMBIGUOUS :
        (\E i \in 1..Len(tokens) : tokens[i] = <<brand>>) => canon_map(<<brand>>) \in BanksReturned

\* C16 as stated: ally or ally bank is returned only if some token ally has a
\* context word at a token distance of at most 3, and every non-ambiguous
\* single-word brand that is a token of the text is returned.
C16_AllyGuard_BothForms ==
    last.kind = "extract_banks" =>
        /\ (<<"ally">> \in BanksReturned \/ <<"ally", "bank">> \in BanksReturned)
              => AllyNearContext(_words(last.text))
        /\ PlainBrandsReturned(_words(last.text))

\* C16 amended: the bare name ally is returned only if some token ally has a
\* context word at a token distance of at most 3; ally bank is returned only if
\* the text holds the words ally and bank one blank apart; every non-ambiguous
\* single-word brand that is a token of the text is returned.
C16_AllyGuard_BareForm ==
    last.kind = "extract_banks" =>
        /\ <<"ally">> \in BanksReturned => AllyNearContext(_words(last.text))
        /\ <<"ally", "bank">> \in BanksReturned =>
              \E i \in 1..(Len(last.text) - 1) :
                  LET u == last.text[i]
                      v == last.text[i + 1]
                  IN u # Number /\ v # Number /\ u[Len(u)] = "ally" /\ v[1] = "bank"
        /\ PlainBrandsReturned(_words(last.text))

\* ally is returned for a text whose only context word is three tokens (and a
\* number) away from the token ally
C16_Witness ==
    /\ last.kind = "extract_banks"
    /\ last.text = << <<"ally">>, <<"chase">>, Number, <<"the">>, <<"bank">> >>
    /\ last.banks = << <<"ally">>, <<"chase">> >>

\* C17: extract_banks returns its names in strictly increasing lexicographic
\* order, none of them an alias that the alias map sends to another name, none
\* of them in the safety-exclusion set.
C17_SortedCanonical ==
    last.kind = "extract_banks" =>
        /\ \A i \in 1..(Len(last.banks) - 1) : Rank(last.banks[i]) < Rank(last.banks[i + 1])
        /\ BanksReturned \cap { <<"jp", "morgan">>, <<"citibank">>, <<"pnc", "bank">>,
                                <<"hsbc", "bank">>, <<"barclays", "bank">>,
                                <<"santander", "bank">> } = {}
        /\ BanksReturned \cap { <<"zelle">>, <<"venmo">>, <<"cash", "app">>,
                                <<"apple", "pay">>, <<"google", "pay">> } = {}

\* a text naming citibank before ally bank: the alias is replaced and the
\* names come back in lexicographic order
C17_Witness ==
    /\ last.kind = "extract_banks"
    /\ last.text = << <<"citibank">>, <<"ally">>, <<"bank">> >>
    /\ last.banks = << <<"ally", "bank">>, <<"citi">> >>

\* C18: the result of analyze_sentiment follows the decision table on (issue,
\* pos_count, neg_count), read in order; the label is neutral only without an
\* issue and with equal counts; the score (in tenths) lies in [-10, 10]; the
\* label agrees with the sign of the score.
C18_DecisionTable ==
    last.kind = "analyze_sentiment" =>
        LET issue == last.is_issue
            pos == last.pos_count
            neg == last.neg_count
            res == <<last.label, last.score>>
        IN /\ (issue /\ neg > 0) => res = <<"negative", -8>>
           /\ (issue /\ neg = 0) => res = <<"negative", -5>>
           /\ (~issue /\ pos > neg) => res = <<"positive", 6>>
           /\ (~issue /\ neg > pos) => res = <<"negative", -3>>
           /\ (~issue /\ neg = pos) => res = <<"neutral", 0>>
           /\ last.label = "neutral" => (~issue /\ pos = neg)
           /\ -10 <= last.score /\ last.score <= 10
           /\ last.label = "negative" <=> last.score < 0
           /\ last.label = "positive" <=> last.score > 0
           /\ last.label = "neutral" <=> last.score = 0

\* a text with an issue term and more positive than negative terms is negative
C18_Witness ==
    /\ last.kind = "analyze_sentiment"
    /\ last.text = << <<"great">>, <<"great">>, <<"log">>, <<"in">> >>
    /\ last.is_issue
    /\ last.pos_count = 2
    /\ last.neg_count = 0
    /\ last.label = "negative"
    /\ last.score = -5

\* C19: for "My card was frozen and this is terrible" analyze_sentiment finds
\* the issue signal, counts at least one negative term and returns (negative, -0.8).
C19_FrozenCardStrongNegative ==
    (last.kind = "analyze_sentiment" /\ last.text = FrozenCardText) =>
        /\ last.is_issue
        /\ last.neg_count > 0
        /\ last.label = "negative"
        /\ last.score = -8

\* C20: classify_topic returns general exactly when every topic's total is
\* zero; otherwise it returns the first declared topic whose total is the
\* highest.
C20_FirstMaxTopic ==
    last.kind = "classify_topic" =>
        LET scores == last.scores
            names == [k \in 1..Len(TOPIC_PATTERNS) |-> TOPIC_PATTERNS[k].topic]
        IN /\ names = <<"login_auth", "payments", "cards", "mobile_app", "fees",
                        "customer_service", "security", "account_management">>
           /\ last.topic = "general" <=> \A k \in 1..Len(scores) : scores[k] = 0
           /\ last.topic # "general" =>
                 \E k \in 1..Len(scores) :
                     /\ names[k] = last.topic
                     /\ \A j \in 1..Len(scores) : scores[j] <= scores[k]
                     /\ \A j \in 1..(k - 1) : scores[j] < scores[k]

\* cards and security share the highest total: cards, declared first, is returned
C20_Witness ==
    /\ last.kind = "classify_topic"
    /\ last.text = << <<"fraud">>, <<"fraud">>, <<"virtual">>, <<"card">> >>
    /\ last.scores[3] = 2
    /\ last.scores[7] = 2
    /\ last.topic = "cards"

\* the number of placeholders in a text
Placeholders(s) == Cardinality({i \in 1..Len(s) : s[i] = "["})

\* some substring of s, taken on its own, belongs to the class of the pattern
HasSubstringOfClass(patt, s) == \E i \in 1..Len(s) : MatchAt(patt, s, i, TRUE) # 0

\* C21: for every input text the output of redact contains no substring of any
\* of the five pattern classes (card-shaped, SSN-shaped, 9 to 18 digits, email
\* address, phone-shaped 7 to 15 digits), and no later pattern matches a span
\* that an earlier pattern replaced.
C21_NoPatternClassSubstring ==
    last.kind = "redact" =>
        /\ \A n \in 1..Len(PII_PATTERNS) : ~HasSubstringOfClass(PII_PATTERNS[n], last.out)
        /\ \A n \in 1..Len(PII_PATTERNS) :
               Placeholders(last.passes[n]) >= Placeholders(last.passes[n - 1])

\* the items of the response for post p
ItemsOf(p) == {n \in 1..Len(last.items) : last.items[n].id = p}

\* the number of kept posts of the listing up to post p
KeptUpTo(p) == Cardinality({q \in 1..p : last.listing[q].keep})

\* post p had room in the response: reddit_features has no cap, and
\* reddit_banks_multi lists per_bank_limit posts for a bank
HadRoom(p) ==
    last.endpoint = "reddit_banks_multi" => KeptUpTo(p) <= last.per_bank_limit

\* C22: in reddit_features and reddit_banks_multi, a failure while fetching or
\* processing the comments of a post aborts neither the post nor the listing:
\* the post is in the response and its comments list is empty.
C22_CommentFailureKeepsPostEmpty ==
    (last.kind = "listing" /\ last.response = "ok") =>
        \A f \in last.failed :
            HadRoom(f.post) =>
                /\ ItemsOf(f.post) # {}
                /\ \A n \in ItemsOf(f.post) :
                       last.items[n].has_comments /\ last.items[n].comments = <<>>

\* C22 as the code has it: the post is in the response once; its comments
\* list is empty when the failure came while fetching (load, replace_more,
\* listing the forest) and, in reddit_features, wherever it came; in
\* reddit_banks_multi the list holds the comments handled before the failure.
C22_CommentFailureKeepsPost ==
    (last.kind = "listing" /\ last.response = "ok") =>
        \A f \in last.failed :
            HadRoom(f.post) =>
                /\ Cardinality(ItemsOf(f.post)) = 1
                /\ \A n \in ItemsOf(f.post) :
                       /\ last.items[n].has_comments
                       /\ last.items[n].comments =
                             IF f.done = 0 \/ last.endpoint = "reddit_features"
                             THEN <<>>
                             ELSE comment_items(last.listing[f.post].comments, f.done)

C22_Witness ==
    /\ last.kind = "listing" /\ last.response = "ok"
    /\ \E f \in last.failed : f.done = 0 /\ ItemsOf(f.post) # {}
    /\ \E f \in last.failed :
          /\ f.done > 0
          /\ \E n \in ItemsOf(f.post) : last.items[n].comments # <<>>

\* the (post, bank) pairs of the submissions obs[k..] whose hash is already in
\* seen when the loop over the banks reaches them, each encounter counted
RECURSIVE EncounteredDuplicates(_, _, _)
EncounteredDuplicates(obs, k, seen) ==
    IF k > Len(obs) THEN 0
    ELSE LET banks == DetectedBanks(obs[k])
             hashes == {generate_post_hash(obs[k].id, banks[i], obs[k].head) : i \in 1..Len(banks)}
         IN Cardinality(hashes \cap seen) + EncounteredDuplicates(obs, k + 1, seen \cup hashes)

\* C23: the duplicates_skipped of a run's summary is the number of (post, bank)
\* pairs the run encountered and skipped because their hash was already seen;
\* seen pairs the run did not encounter are not counted.
C23_DuplicatesAreEncountered ==
    (last.kind = "run" /\ last.response = "summary") =>
        last.duplicates_skipped = EncounteredDuplicates(last.obs, 1, PreHashes)

\* C24: for every completed run, whatever the append flag and whether or not
\* new records were found, total_all_records is the number of records in the
\* persisted store after the run and total_new_records is the length of new_data.
C24_TotalsMatchStore ==
    (last.kind = "run" /\ last.response = "summary") =>
        /\ last.total_all_records = Len(PostRecs)
        /\ last.total_new_records = Len(last.new_data)

\* C25: a run requested with format=csv completes and returns a CSV response
\* for every prior state and every input; with append=true and no new record
\* the body holds the existing records, or is empty when there are none.
C25_CsvAlwaysReturned ==
    last.kind = "csv" =>
        /\ last.response = "csv"
        /\ last.body = CsvBody(IF last.append THEN PostRecs ELSE last.new_data)

\* C26: after every run that completes without error, from any loadable or
\* unparsable prior state, the hash of every record of the persisted store is in
\* the persisted seen-hash set.
C26_StoreHashesSeen ==
    (last.kind = "run" /\ last.response = "summary") =>
        HashesOf(PostRecs) \subseteq PostHashes

\* C27: no lost update.  When two runs overlap (the second to finish began
\* before the first finished: no request has begun since, or last would have
\* been reset), then once both have finished every record either of them
\* returned in new_data is in the persisted store and its hash is in the
\* persisted seen-hash set.  Stated for two appending runs.
C27_NoLostUpdate ==
    [][(/\ last.kind = "run" /\ last.append
        /\ last'.kind = "run" /\ last'.append
        /\ last' # last) =>
            /\ RecSet(last.new_data) \cup RecSet(last'.new_data)
                  \subseteq RecSet(load_existing_data(dataFile'))
            /\ HashesOf(last.new_data) \cup HashesOf(last'.new_data)
                  \subseteq load_seen_hashes(hashFile')]_vars

\* C28: clear is final.  When a run persists its batch after clear_data has
\* completed (the run began before the clear: no request has begun since, or
\* last would have been reset), no record and no hash that was persisted before
\* the clear is in the store or the seen-hash set again, unless the run
\* emitted it anew from the source.
C28_ClearIsFinal ==
    [][(last.kind = "clear" /\ last'.kind = "run") =>
            /\ \A rec \in RecSet(load_existing_data(dataFile')) :
                   rec \in RecSet(PreRecs) => rec.hash \in HashesOf(last'.new_data)
            /\ \A h \in load_seen_hashes(hashFile') :
                   h \in PreHashes => h \in HashesOf(last'.new_data)]_vars

InScript == Script.pc \in {"e_file", "e_embed", "e_insert", "e_exit"}

\* C29: resume by count inserts each CSV row exactly once.  Over any sequence
\* of launches (a launch stopped part-way and resumed, rows whose embedding or
\* insert failed, several files into one table), the rows skipped at the start
\* of a run of embed_and_store_csv are precisely the rows of that file already
\* in the table, and no row is in the table twice.
C29_ResumeExactlyOnce ==
    InScript =>
        /\ Script.skipped = Script.stored
        /\ \A j, k \in 1..Len(Script.table) : Script.table[j] = Script.table[k] => j = k

\* C30: get_embedding makes at most max_retries attempts, and once it has given
\* up on a row because the rate limit or quota is still exceeded,
\* embed_and_store_csv has returned: no later row of the file is embedded and
\* the partial batch is not inserted.
C30_GiveUpStopsScript ==
    InScript =>
        /\ Script.attempt < max_retries
        /\ Script.gave_up => Script.pc \notin {"e_embed", "e_insert"}

====
